---- MODULE Spec2Model ----
(***************************************************************************)
(* Model of the hulu-collections web component                             *)
(* (src/src/components/Collections/index.ts) together with the parts of    *)
(* hulu-modal and hulu-layout-toggle its handlers drive.                   *)
(*                                                                         *)
(* Indices (selectedRowIndex, selectedColumnIndex, the arguments of the    *)
(* update* methods) are 0-based as in the source; TLA+ sequences are       *)
(* 1-based, so collections[rowIndex].views[columnIndex] of the source is   *)
(* collections[rowIndex + 1][columnIndex + 1] here.                        *)
(*                                                                         *)
(* A View is represented by its identity <<r, c>>: the view made of item c *)
(* of the items response of collection r (where the load is one step per   *)
(* collection, the response holds the surviving items only).  Views are    *)
(* assumed well typed (genre is an array, date a Date), as utils/types.ts  *)
(* declares.                                                               *)
(***************************************************************************)
EXTENDS Integers, Sequences, FiniteSets, TLC

\* Bounds of the model: catalog shapes up to MaxCollections rows of up to
\* MaxViews views each.
MaxCollections == 2
MaxViews == 3

\* Raw records per items response in the detailed load.
MaxRaw == 2

\* Times the element is inserted into a document.
MaxConnects == 2

\* JavaScript's null (also the value of an absent attribute) and undefined.
\* Every value a variable may hold beside them is a tuple of another
\* length: a View <<r, c>>, a NodeList <<"NodeList", "length", n>>.
Null == <<>>
Undefined == <<"undefined">>

\* The static NodeList querySelectorAll returns, by its length.
NodeList(n) == <<"NodeList", "length", n>>
length(nodeList) == nodeList[3]

ArrowKeys == {"ArrowUp", "ArrowDown", "ArrowLeft", "ArrowRight"}
Keys == ArrowKeys \cup {"Enter", "Escape"}

VARIABLES
  pc,                  \* position of connectedCallback
  skeletons,           \* number of collections getCollections() resolved to
  loading,             \* the loading image is in the shadow DOM
  selectedRowIndex,    \* state.selectedRowIndex
  selectedColumnIndex, \* state.selectedColumnIndex
  selectedTile,        \* state.selectedTile: Null, Undefined or a View
  collections,         \* state.collections: sequence of views sequences
  isHorizontal,        \* state.isHorizontal
  collectionsElement,  \* Undefined, or the NodeList of row containers
  grid,                \* #collections: is-selected attribute of each tile
  modalIsOpen,         \* hulu-modal attribute is-open: Null, "true", "false"
  modalShow,           \* the .modal element carries class show
  modalItem,           \* the View whose fields the modal attributes hold
  opacity,             \* #collections style.opacity: "", "0.5" or "1"
  toggleIsHorizontal,  \* HuluLayoutToggle.state.isHorizontal
  sliderOn,            \* the toggle's .slider carries class on
  listeners,           \* keydown listeners of this element on document
  event,               \* the event whose handler ran last
  raised,              \* that handler ended with an uncaught exception
  reRendered,          \* that handler ran renderCollections()
  connected,           \* the hulu-collections element is in the document
  inflight,            \* the requests in flight (see hubRequest)
  issued,              \* the rows getViews was called for, in call order
  batch,               \* the raw items of the last items response
  batchRow,            \* the row that response belongs to, -1 before it
  collectionIds,       \* per state.collections entry, its skeleton index
  step,                \* keys of the scripted scenario handled so far
  modal,               \* the hulu-modal element taken alone (see HuluModal)
  image                \* the hulu-image element taken alone (see HuluImage)

vars == <<pc, skeletons, loading, selectedRowIndex, selectedColumnIndex,
          selectedTile, collections, isHorizontal, collectionsElement, grid,
          modalIsOpen, modalShow, modalItem, opacity, toggleIsHorizontal,
          sliderOn, listeners, event, raised, reRendered, connected,
          inflight, issued, batch, batchRow, collectionIds, step,
          modal, image>>

Max(a, b) == IF a >= b THEN a ELSE b
Min(a, b) == IF a <= b THEN a ELSE b

(***************************************************************************)
(* HuluCollections: construction and rendering                             *)
(***************************************************************************)

\* Mutant of constructorState: the cursor row starts at a "no selection"
\* sentinel.
constructorState_noRow ==
  [selectedRowIndex |-> -1, selectedColumnIndex |-> 0, selectedTile |-> Null,
   collections |-> <<>>, isHorizontal |-> TRUE]

\* constructor(): the initial component state.
constructorState ==
  [selectedRowIndex |-> 0, selectedColumnIndex |-> 0, selectedTile |-> Null,
   collections |-> <<>>, isHorizontal |-> TRUE]

\* renderCollections(): one row per collection, one tile per view; a tile
\* is rendered with is-selected="true" iff its position equals the cursor.
renderCollections(cs, rowIndexSel, columnIndexSel) ==
  [r \in 1..Len(cs) |->
     [c \in 1..Len(cs[r]) |->
        IF (c - 1 = columnIndexSel) /\ (r - 1 = rowIndexSel)
        THEN "true" ELSE "false"]]

\* this.shadow.querySelectorAll(".collection-container"): one per row.
queryCollectionContainers(g) == NodeList(Len(g))

(***************************************************************************)
(* The key handler.  The fields a handler may write are threaded through a *)
(* record s; s.raised records an uncaught TypeError, after which the rest  *)
(* of the handler does not run.                                            *)
(***************************************************************************)

current ==
  [row |-> selectedRowIndex, col |-> selectedColumnIndex,
   tile |-> selectedTile, grid |-> grid,
   isOpen |-> modalIsOpen, show |-> modalShow, item |-> modalItem,
   opacity |-> opacity, raised |-> FALSE]

\* this.collectionsElement[rowIndex] is an element (not undefined).
hasCollectionElement(rowIndex) ==
  /\ collectionsElement # Undefined
  /\ rowIndex \in 0..(length(collectionsElement) - 1)

\* getTilesLength(rowIndex), defined when hasCollectionElement(rowIndex).
getTilesLength(s, rowIndex) == Len(s.grid[rowIndex + 1])

\* updateSelectedTile(columnIndex, rowIndex, isSelected)
updateSelectedTile(s, columnIndex, rowIndex, isSelected) ==
  IF s.raised THEN s
  ELSE IF ~hasCollectionElement(rowIndex) THEN [s EXCEPT !.raised = TRUE]
  ELSE IF (columnIndex + 1) \in DOMAIN s.grid[rowIndex + 1]
       THEN [s EXCEPT !.grid[rowIndex + 1][columnIndex + 1] = isSelected,
                      !.tile = collections[rowIndex + 1][columnIndex + 1]]
       ELSE s

\* Mutant of updateSelectedRow: the column is clamped to the new row.
updateSelectedRow_clamps(s, newIndex) ==
  IF newIndex = s.row THEN s
  ELSE LET a == updateSelectedTile(s, s.col, s.row, "false")
           col == Max(0, Min(s.col, Len(s.grid[newIndex + 1]) - 1))
           b == updateSelectedTile(a, col, newIndex, "true")
       IN IF b.raised THEN b ELSE [b EXCEPT !.row = newIndex, !.col = col]

\* updateSelectedRow(newIndex)
updateSelectedRow(s, newIndex) ==
  IF newIndex = s.row THEN s
  ELSE LET a == updateSelectedTile(s, s.col, s.row, "false")
           b == updateSelectedTile(a, s.col, newIndex, "true")
       IN IF b.raised THEN b ELSE [b EXCEPT !.row = newIndex]

\* Mutant of updateSelectedColumn: the old tile is deselected before the
\* test for an unchanged index.
updateSelectedColumn_lateReturn(s, newIndex) ==
  LET a == updateSelectedTile(s, s.col, s.row, "false")
  IN IF newIndex = s.col THEN a
     ELSE LET b == updateSelectedTile(a, newIndex, s.row, "true")
          IN IF b.raised THEN b ELSE [b EXCEPT !.col = newIndex]

\* updateSelectedColumn(newIndex)
updateSelectedColumn(s, newIndex) ==
  IF newIndex = s.col THEN s
  ELSE LET a == updateSelectedTile(s, s.col, s.row, "false")
           b == updateSelectedTile(a, newIndex, s.row, "true")
       IN IF b.raised THEN b ELSE [b EXCEPT !.col = newIndex]

\* renderModal(modal) followed by the dimming of the grid (case "Enter").
\* selectedTile.branding raises when selectedTile is null or undefined.
\* The is-open attribute changes (the gate let Enter through, so it was
\* not "true"), so attributeChangedCallback adds the class show.
renderModal(s) ==
  IF s.tile \in {Null, Undefined} THEN [s EXCEPT !.raised = TRUE]
  ELSE [s EXCEPT !.item = s.tile, !.isOpen = "true", !.show = TRUE]

\* Mutant of keyEnter: the grid is not dimmed.
keyEnter_noDim(s) == renderModal(s)

\* case "Enter"
keyEnter(s) ==
  LET m == renderModal(s)
  IN IF m.raised THEN m ELSE [m EXCEPT !.opacity = "0.5"]

\* Mutant of keyEscape: closing also clears the item bound to the modal.
keyEscape_clears(s) ==
  [s EXCEPT !.isOpen = "false", !.show = FALSE, !.opacity = "1",
            !.item = Null]

\* case "Escape": is-open="false"; HuluModal.attributeChangedCallback
\* returns early when the value is unchanged, else removes the class show.
keyEscape(s) ==
  [s EXCEPT !.isOpen = "false",
            !.show = IF s.isOpen = "false" THEN s.show ELSE FALSE,
            !.opacity = "1"]

\* The index each arrow key asks for.
arrowUpIndex(s) == Max(0, s.row - 1)

arrowLeftIndex(s) == Max(0, s.col - 1)

\* Mutant of arrowRightIndex: clamps to the length, not to the last index.
arrowRightIndex_offByOne(s) == Min(s.col + 1, getTilesLength(s, s.row))

arrowRightIndex(s) == Min(s.col + 1, getTilesLength(s, s.row) - 1)

\* getCollectionLength(): this.collectionsElement.length, which raises
\* when collectionsElement is undefined (see handleKeyDown).
getCollectionLength == length(collectionsElement)

\* Mutant of arrowDownIndex: clamps to the length, not to the last index.
arrowDownIndex_offByOne(s) == Min(s.row + 1, getCollectionLength)

arrowDownIndex(s) == Min(s.row + 1, getCollectionLength - 1)

\* Mutant of gated: the early return is missing.
gated_off(s, key) == FALSE

\* Mutant of gated: the test of is-open is inverted.
gated_inverted(s, key) == (s.isOpen = "false") /\ (key # "Escape")

\* The early return of handleKeyDown while the modal is open.
gated(s, key) == (s.isOpen = "true") /\ (key # "Escape")

\* handleKeyDown(event)
handleKeyDown(s, key) ==
  IF gated(s, key) THEN s
  ELSE CASE key = "ArrowUp" -> updateSelectedRow(s, arrowUpIndex(s))
         [] key = "ArrowDown" ->
              IF collectionsElement = Undefined
              THEN [s EXCEPT !.raised = TRUE]
              ELSE updateSelectedRow(s, arrowDownIndex(s))
         [] key = "ArrowLeft" -> updateSelectedColumn(s, arrowLeftIndex(s))
         [] key = "ArrowRight" ->
              IF ~hasCollectionElement(s.row)
              THEN [s EXCEPT !.raised = TRUE]
              ELSE updateSelectedColumn(s, arrowRightIndex(s))
         [] key = "Enter" -> keyEnter(s)
         [] key = "Escape" -> keyEscape(s)

(***************************************************************************)
(* HuluImage and HuluModal: the elements taken alone                       *)
(***************************************************************************)

\* setAttribute(name, value) stores String(value).
toAttr(value) ==
  IF Null = value THEN "null"
  ELSE IF Undefined = value THEN "undefined" ELSE value

\* The attributes HuluImage.render() reads.
ImageAttributes == {"src", "is-selected", "logo"}

\* HuluImage.observedAttributes.
imageObservedAttributes == {"src", "is-selected"}

\* The values an attribute of hulu-image is given.
imageValues(name) ==
  IF name = "src" THEN {"a.jpeg", "b.jpeg"}
  ELSE IF name = "is-selected" THEN {"true", "false"}
  ELSE {"hulu-logo.jpeg", "undefined"}

\* A hulu-image after its constructor: no attribute, an empty shadow root,
\* this.image unassigned.  wrapper tells what this.image refers to:
\* "undefined", "current" (the .img-wrapper in the shadow root) or
\* "detached" (a wrapper that render() has replaced since).  shown is the
\* content of the shadow root: the class of the wrapper, the src of the
\* background image and of the logo ("" when the img is not rendered).
constructedImage ==
  [connected |-> FALSE,
   attrs |-> [n \in ImageAttributes |-> Null],
   wrapper |-> "undefined",
   shown |-> [rendered |-> FALSE, selected |-> FALSE, src |-> "",
              logo |-> ""]]

\* HuluImage.render(): the shadow root gets a new wrapper built from the
\* attributes; this.image is not assigned, so a wrapper it referred to is
\* now out of the shadow root.
imageRender(img) ==
  [img EXCEPT
     !.shown = [rendered |-> TRUE,
                selected |-> (img.attrs["is-selected"] = "true"),
                src |-> IF Null = img.attrs["src"] THEN ""
                        ELSE img.attrs["src"],
                logo |-> IF \/ Null = img.attrs["logo"]
                            \/ img.attrs["logo"] = "undefined"
                         THEN "" ELSE img.attrs["logo"]],
     !.wrapper = IF img.wrapper = "undefined" THEN "undefined"
                 ELSE "detached"]

\* HuluImage.connectedCallback(): render(), then this.image is queried.
imageConnectedCallback(img) ==
  [imageRender(img) EXCEPT !.connected = TRUE, !.wrapper = "current"]

\* HuluImage.attributeChangedCallback(name, oldValue, newValue).  The class
\* is toggled on the element this.image refers to, which shows only when
\* that element is the one in the shadow root.
imageAttributeChangedCallback(img, name, oldValue, newValue) ==
  IF oldValue = newValue THEN img
  ELSE IF img.wrapper = "undefined" THEN img
  ELSE IF name = "is-selected"
       THEN IF img.wrapper = "current"
            THEN [img EXCEPT !.shown.selected = (newValue = "true")]
            ELSE img
       ELSE imageRender(img)

\* image.setAttribute(name, value) on a hulu-image.
imageSetAttribute(img, name, value) ==
  LET set == [img EXCEPT !.attrs[name] = value]
  IN IF name \in imageObservedAttributes
     THEN imageAttributeChangedCallback(set, name, img.attrs[name], value)
     ELSE set

\* The attributes renderModal() sets on hulu-modal, in the order of its
\* statements.
ModalAttributes ==
  <<"logo", "horizontal-image", "title", "description", "rating", "date",
    "genre", "type", "action-text", "is-open">>

\* HuluModal.observedAttributes.
modalObservedAttributes ==
  {"is-open", "title", "description", "rating", "genre", "date",
   "horizontal-image", "action-text"}

\* A hulu-modal after its constructor.  text holds the textContent of the
\* elements updateModal() writes, image is the hulu-image of the dialog,
\* item holds the View of the last renderModal(), if any.
constructedModal ==
  [connected |-> FALSE,
   attrs |-> [n \in {ModalAttributes[i] : i \in 1..Len(ModalAttributes)}
                |-> Null],
   show |-> FALSE,
   text |-> [title |-> "", actionText |-> "", rating |-> "", genre |-> "",
             date |-> "", description |-> ""],
   image |-> constructedImage,
   item |-> <<>>]

\* modal.getAttribute(name).
getAttribute(m, name) == m.attrs[name]

\* element.textContent = value: null gives the empty text.
textContent(value) == IF Null = value THEN "" ELSE value

\* A Date is <<year, rest>>.  date.toString() keeps the year.
dateToString(date) == <<"Date", date[1]>>

\* new Date(text).getFullYear().toString(); new Date(null) is the epoch.
fullYear(text) == IF Null = text THEN "1970" ELSE text[2]

\* genre.join(separator): the names with the separator between them.
RECURSIVE join(_, _)
join(names, separator) ==
  IF Len(names) = 0 THEN <<>>
  ELSE IF Len(names) = 1 THEN <<names[1]>>
  ELSE <<names[1], separator>> \o join(Tail(names), separator)

\* selectedTile.branding?.logo, a Branding being <<name, logo>>.
brandingLogo(branding) == IF Null = branding THEN Undefined ELSE branding[2]

\* HuluModal.updateModal(): logo and src are set on the hulu-image, then
\* the texts are written.
updateModal(m) ==
  LET img1 == imageSetAttribute(m.image, "logo",
                                toAttr(getAttribute(m, "logo")))
      img2 == imageSetAttribute(img1, "src",
                                toAttr(getAttribute(m, "horizontal-image")))
  IN [m EXCEPT
        !.image = img2,
        !.text = [title |-> textContent(getAttribute(m, "title")),
                  actionText |-> textContent(getAttribute(m, "action-text")),
                  rating |-> textContent(getAttribute(m, "rating")),
                  genre |-> textContent(getAttribute(m, "genre")),
                  date |-> fullYear(getAttribute(m, "date")),
                  description |->
                    textContent(getAttribute(m, "description"))]]

\* HuluModal.attributeChangedCallback(name, oldValue, newValue).
modalAttributeChangedCallback(m, name, oldValue, newValue) ==
  IF oldValue = newValue THEN m
  ELSE IF name = "is-open" THEN [m EXCEPT !.show = (newValue = "true")]
  ELSE updateModal(m)

\* modal.setAttribute(name, value) on a hulu-modal.
modalSetAttribute(m, name, value) ==
  LET set == [m EXCEPT !.attrs[name] = toAttr(value)]
  IN IF name \in modalObservedAttributes
     THEN modalAttributeChangedCallback(set, name, getAttribute(m, name),
                                        toAttr(value))
     ELSE set

\* The value renderModal() gives the attribute name for selectedTile = tile.
attributeOf(tile, name) ==
  CASE name = "logo" -> brandingLogo(tile.branding)
    [] name = "horizontal-image" -> tile.horizontalImage
    [] name = "title" -> tile.title
    [] name = "description" -> tile.description
    [] name = "rating" -> tile.rating
    [] name = "date" -> dateToString(tile.date)
    [] name = "genre" -> join(tile.genre, " * ")  \* a bullet in the source
    [] name = "type" -> tile.type
    [] name = "action-text" -> tile.actionText
    [] name = "is-open" -> "true"

\* The first k statements of renderModal().
RECURSIVE setAttributes(_, _, _)
setAttributes(m, tile, k) ==
  IF k = 0 THEN m
  ELSE modalSetAttribute(setAttributes(m, tile, k - 1),
                         ModalAttributes[k],
                         attributeOf(tile, ModalAttributes[k]))

\* HuluCollections.renderModal(modal) with state.selectedTile = tile.
renderModalOn(m, tile) ==
  [setAttributes(m, tile, Len(ModalAttributes))
     EXCEPT !.item = <<tile>>]

\* The Views a tile can hold, as far as renderModal() reads them (type is
\* stored in an attribute nothing reads).
Items ==
  [title : {"t1", "t2"}, description : {"d1", "d2"}, rating : {"r1", "r2"},
   genre : {<<"g1">>, <<"g1", "g2">>},
   date : {<<"2019", "a">>, <<"2020", "b">>},
   actionText : {"a1", "a2"}, horizontalImage : {"h1.jpeg", "h2.jpeg"},
   branding : {Null, <<"Hulu", "hulu-logo.jpeg">>},
   type : {"movie"}]

\* The variables of HuluCollections and of its load.
collectionsVars ==
  <<pc, skeletons, loading, selectedRowIndex, selectedColumnIndex,
    selectedTile, collections, isHorizontal, collectionsElement, grid,
    modalIsOpen, modalShow, modalItem, opacity, toggleIsHorizontal,
    sliderOn, listeners, raised, reRendered, connected, inflight, issued,
    batch, batchRow, collectionIds, step>>

\* The hulu-image is inserted into a document.
ImageConnect ==
  /\ ~image.connected
  /\ image' = imageConnectedCallback(image)
  /\ event' = "imageConnect"
  /\ UNCHANGED <<collectionsVars, modal>>

\* The hulu-image is removed from the document: disconnectedCallback()
\* clears the onload handler only.
ImageDisconnect ==
  /\ image.connected
  /\ image' = [image EXCEPT !.connected = FALSE]
  /\ event' = "imageDisconnect"
  /\ UNCHANGED <<collectionsVars, modal>>

\* An attribute of the hulu-image is set.
ImageSetAttribute(name, value) ==
  /\ image' = imageSetAttribute(image, name, value)
  /\ event' = name
  /\ UNCHANGED <<collectionsVars, modal>>

NextImage ==
  \/ ImageConnect
  \/ ImageDisconnect
  \/ \E name \in ImageAttributes : \E value \in imageValues(name) :
       ImageSetAttribute(name, value)

\* The hulu-modal is inserted into a document: connectedCallback() renders
\* the dialog, whose hulu-image is connected with it.
ModalConnect ==
  /\ ~modal.connected
  /\ modal' = [modal EXCEPT
                 !.connected = TRUE,
                 !.show = FALSE,
                 !.text = constructedModal.text,
                 !.image = imageConnectedCallback(constructedImage)]
  /\ event' = "modalConnect"
  /\ UNCHANGED <<collectionsVars, image>>

\* handleKeyDown for Enter with this modal and state.selectedTile = item.
ModalEnter(item) ==
  /\ modal.connected
  /\ getAttribute(modal, "is-open") # "true"
  /\ modal' = renderModalOn(modal, item)
  /\ event' = "Enter"
  /\ UNCHANGED <<collectionsVars, image>>

\* handleKeyDown for Escape with this modal.
ModalEscape ==
  /\ modal.connected
  /\ modal' = modalSetAttribute(modal, "is-open", "false")
  /\ event' = "Escape"
  /\ UNCHANGED <<collectionsVars, image>>

NextModal ==
  \/ ModalConnect
  \/ \E item \in Items : ModalEnter(item)
  \/ ModalEscape

(***************************************************************************)
(* Load: connectedCallback and fetchData                                   *)
(***************************************************************************)

\* The requests in flight: the hub request of getCollections(), and the
\* call getViews(href) for the collection at rowIndex, from its fetch to
\* the settling of its Promise.all.
hubRequest == <<"collections">>
viewsRequest(rowIndex) == <<"views", rowIndex>>

\* How a fetch ends: response.ok, a non-success status, a network error.
Outcomes == {"ok", "status", "network"}

\* The views getViews() resolves to for the collection at rowIndex: n
\* surviving views, identified by row and position.
viewsOf(rowIndex, n) == [c \in 1..n |-> <<rowIndex, c - 1>>]

\* What runs once the loop of fetchData has ended with state.collections =
\* cs: the finally block, then the rest of connectedCallback (render(),
\* addEventListeners(), the assignment of selectedTile, the query of the
\* row containers).  state.collections[0].views raises a TypeError when
\* there is no collection; the statements after it are then skipped.
\* Nothing here looks at whether the element is still connected.
finishLoad(cs) ==
  /\ pc' = "done"
  /\ loading' = FALSE
  /\ grid' = renderCollections(cs, selectedRowIndex, selectedColumnIndex)
  /\ reRendered' = TRUE
  /\ modalIsOpen' = Null
  /\ modalShow' = FALSE
  /\ modalItem' = Null
  /\ opacity' = ""
  /\ toggleIsHorizontal' = FALSE
  /\ sliderOn' = FALSE
  /\ listeners' = listeners + 1
  /\ IF cs = <<>>
     THEN /\ raised' = TRUE
          /\ UNCHANGED <<selectedTile, collectionsElement>>
     ELSE /\ raised' = FALSE
          /\ selectedTile' = IF cs[1] = <<>> THEN Undefined ELSE cs[1][1]
          /\ collectionsElement' =
               queryCollectionContainers(grid')

\* What a step of the load leaves alone while connectedCallback is still
\* suspended.
stillLoading ==
  /\ raised' = FALSE
  /\ reRendered' = FALSE
  /\ UNCHANGED <<loading, selectedTile, collectionsElement, grid,
                 modalIsOpen, modalShow, modalItem, opacity,
                 toggleIsHorizontal, sliderOn, listeners>>

\* Mutant of Connect: connectedCallback does not await fetchData().
Connect_noAwait ==
  /\ pc = "constructed"
  /\ connected' = TRUE
  /\ inflight' = {hubRequest}
  /\ event' = "connect"
  /\ finishLoad(collections)
  /\ UNCHANGED <<skeletons, selectedRowIndex, selectedColumnIndex,
                 collections, isHorizontal, issued, batch, batchRow,
                 collectionIds, step,
                 modal, image>>

\* connectedCallback() up to the await of getCollections(), whose fetch is
\* issued.
Connect ==
  /\ pc = "constructed"
  /\ pc' = "getCollections"
  /\ connected' = TRUE
  /\ inflight' = {hubRequest}
  /\ loading' = TRUE
  /\ event' = "connect"
  /\ raised' = FALSE
  /\ reRendered' = FALSE
  /\ UNCHANGED <<skeletons, selectedRowIndex, selectedColumnIndex,
                 selectedTile, collections, isHorizontal, collectionsElement,
                 grid, modalIsOpen, modalShow, modalItem, opacity,
                 toggleIsHorizontal, sliderOn, listeners, issued, batch,
                 batchRow, collectionIds, step,
                 modal, image>>

\* getCollections(): the skeletons of the response, or [] when the
\* request failed (fetchCollections catches the error and returns []).
getCollections(outcome, n) ==
  [rejected |-> FALSE, value |-> IF outcome = "ok" THEN n ELSE 0]

\* Mutant of firstFetches: every getViews is called without awaiting the
\* one before.
firstFetches_all(n) == {viewsRequest(r) : r \in 0..(n - 1)}

\* Mutant of firstFetches: the loop of fetchData awaits a getViews that
\* was never called.
firstFetches_none(n) == {}

\* The getViews calls made when the loop of fetchData is entered with n
\* skeletons: the one of the first collection.
firstFetches(n) == IF n > 0 THEN {viewsRequest(0)} ELSE {}

\* The rows of a set of getViews calls 0..k-1, in the order of the calls.
rowsOf(requests) == [k \in 1..Cardinality(requests) |-> k - 1]

\* getCollections() settles and the loop of fetchData is entered.
GetCollectionsSettle ==
  /\ pc = "getCollections"
  /\ hubRequest \in inflight
  /\ \E outcome \in Outcomes, n \in 0..MaxCollections :
       LET result == getCollections(outcome, n)
       IN /\ outcome # "ok" => n = 0
          /\ skeletons' = IF result.rejected THEN 0 ELSE result.value
          /\ event' = IF result.rejected THEN "collectionsRejected"
                      ELSE IF outcome = "ok" THEN "collections"
                      ELSE "collectionsFailed"
  /\ inflight' = firstFetches(skeletons')
  /\ issued' = rowsOf(inflight')
  /\ UNCHANGED <<selectedRowIndex, selectedColumnIndex, collections,
                 isHorizontal, connected, batch, batchRow, collectionIds,
                 step,
                 modal, image>>
  /\ IF skeletons' = 0
     THEN finishLoad(collections)
     ELSE /\ pc' = "getViews"
          /\ stillLoading

\* Mutant of push: a collection without views is not pushed.
push_skipEmpty(c, rowIndex, views) ==
  IF views = <<>> THEN c
  ELSE [views |-> Append(c.views, views), ids |-> Append(c.ids, rowIndex)]

\* this.state.collections.push({...collection, views}): the views, and the
\* skeleton (by its index) they are attached to.
push(c, rowIndex, views) ==
  [views |-> Append(c.views, views), ids |-> Append(c.ids, rowIndex)]

\* The loop of fetchData once getViews() has settled for the collection at
\* rowIndex: a rejection goes to the catch block and ends the loop; else
\* the collection is pushed and the next getViews is called, or the loop
\* ends.
afterGetViews(rowIndex, result) ==
  LET c0 == [views |-> collections, ids |-> collectionIds]
      c == IF result.rejected THEN c0 ELSE push(c0, rowIndex, result.value)
      settled == inflight \ {viewsRequest(rowIndex)}
  IN /\ collections' = c.views
     /\ collectionIds' = c.ids
     /\ IF result.rejected \/ rowIndex + 1 = skeletons
        THEN /\ inflight' = settled
             /\ UNCHANGED issued
             /\ finishLoad(c.views)
        ELSE /\ inflight' = settled \cup {viewsRequest(rowIndex + 1)}
             /\ issued' = Append(issued, rowIndex + 1)
             /\ UNCHANGED pc
             /\ stillLoading

\* The event name of a settled getViews().
settledAs(result) ==
  IF result.rejected THEN "viewsRejected"
  ELSE IF result.caught THEN "viewsFailed" ELSE "views"

\* getViews(collection.href) settles for the next collection, seen as one
\* step: n views survived, or [] when the request failed; the collection
\* is pushed.
GetViewsSettle ==
  /\ pc = "getViews"
  /\ \E rowIndex \in 0..(skeletons - 1), ok \in BOOLEAN, n \in 0..MaxViews :
       LET result == [rejected |-> FALSE, caught |-> ~ok,
                      value |-> IF ok THEN viewsOf(rowIndex, n) ELSE <<>>]
       IN /\ viewsRequest(rowIndex) \in inflight
          /\ ~ok => n = 0
          /\ event' = settledAs(result)
          /\ afterGetViews(rowIndex, result)
  /\ UNCHANGED <<skeletons, selectedRowIndex, selectedColumnIndex,
                 isHorizontal, connected, batch, batchRow, step,
                 modal, image>>

(***************************************************************************)
(* Load in detail: the items response of getViews and the image probes of  *)
(* transformDataToView.  An item is a record: h and v (the horizontal and  *)
(* the vertical probe: "none" before it is started, "probing", then "url"  *)
(* or "null" as validateImage resolves), missing (the part of the raw      *)
(* record whose absence made a property read throw, "none" so far), out    *)
(* (how transformDataToView settled: "pending", "view", "undefined" or     *)
(* "rejected").  Whether a part of the raw record is present is drawn when *)
(* the code reads it.                                                      *)
(***************************************************************************)

\* The parts of a raw record transformDataToView reads, in the order it
\* reads them.
RawParts == <<"horizontal_tile", "vertical_tile", "entity_metadata">>

\* data.items of a response: up to MaxRaw raw records, each holding
\* visuals.artwork.horizontal_tile or not.
RawBatches == UNION {[1..n -> BOOLEAN] : n \in 0..MaxRaw}

\* validateImage(url): the url when the image loads, null when it fails.
validateImage(ok) == IF ok THEN "url" ELSE "null"

\* Mutant of onThrow: transformDataToView has no catch block.
onThrow_noCatch == "rejected"

\* How transformDataToView settles when its try block throws: the catch
\* block returns undefined.
onThrow == "undefined"

\* Mutant of dropped: the item is dropped only when both images failed.
dropped_both(h, v) == (h = "null") /\ (v = "null")

\* if (!horizontalImage || !verticalImage) return undefined;
dropped(h, v) == (h = "null") \/ (v = "null")

\* transformDataToView(data) up to its first await: the path of the
\* horizontal image is read (a TypeError when the record lacks it) and the
\* horizontal probe is started.
startItem(present) ==
  IF ~present
  THEN [missing |-> RawParts[1], h |-> "none", v |-> "none", out |-> onThrow]
  ELSE [missing |-> "none", h |-> "probing", v |-> "none", out |-> "pending"]

\* transformDataToView resumes as the probe it awaits settles; present
\* tells whether the part of the record read next is there.  After the
\* horizontal probe the path of the vertical image is read (a TypeError
\* when the record lacks it) and the vertical probe is started, whatever
\* the horizontal probe gave.  After the vertical probe the item is
\* dropped when an image failed; else the view is built, which reads
\* entity_metadata.rating (a TypeError when the record lacks it).
probeSettled(item, ok, present) ==
  IF item.h = "probing"
  THEN IF ~present
       THEN [item EXCEPT !.h = validateImage(ok), !.missing = RawParts[2],
                         !.out = onThrow]
       ELSE [item EXCEPT !.h = validateImage(ok), !.v = "probing"]
  ELSE LET v == validateImage(ok)
       IN IF dropped(item.h, v)
          THEN [item EXCEPT !.v = v, !.out = "undefined"]
          ELSE IF ~present
               THEN [item EXCEPT !.v = v, !.missing = RawParts[3],
                                 !.out = onThrow]
               ELSE [item EXCEPT !.v = v, !.out = "view"]

\* Mutant of promiseAllSettled: the batch settles with its first item.
promiseAllSettled_any(b) ==
  \/ b = <<>>
  \/ \E i \in DOMAIN b : b[i].out # "pending"

\* Promise.all(data.items.map(transformDataToView)) has settled: every
\* promise is fulfilled, or one is rejected.
promiseAllSettled(b) ==
  \/ \A i \in DOMAIN b : b[i].out # "pending"
  \/ \E i \in DOMAIN b : b[i].out = "rejected"

\* The array Promise.all fulfils with: per raw item, its view (identified
\* by row and position in data.items) or undefined.
promiseAll(rowIndex, b) ==
  [i \in DOMAIN b |->
     IF b[i].out = "view" THEN <<rowIndex, i - 1>> ELSE Undefined]

\* views.filter(Boolean)
filterBoolean(views) == SelectSeq(views, LAMBDA view : view # Undefined)

\* Mutant of getViews: the catch block rethrows the error.
getViews_rethrows(outcome, rowIndex, b) ==
  IF outcome # "ok"
  THEN [rejected |-> TRUE, caught |-> FALSE, value |-> <<>>]
  ELSE [rejected |-> FALSE, caught |-> FALSE,
        value |-> filterBoolean(promiseAll(rowIndex, b))]

\* getViews(href) for the collection at rowIndex, given how its fetch
\* ended and how its items settled: the surviving views; [] from the catch
\* block when the fetch failed or a promise of Promise.all was rejected.
getViews(outcome, rowIndex, b) ==
  IF (outcome # "ok") \/ (\E i \in DOMAIN b : b[i].out = "rejected")
  THEN [rejected |-> FALSE, caught |-> TRUE, value |-> <<>>]
  ELSE [rejected |-> FALSE, caught |-> FALSE,
        value |-> filterBoolean(promiseAll(rowIndex, b))]

\* The fetch of getViews settles for the collection whose items are
\* awaited.  A failed fetch settles getViews at once; else every raw item
\* is handed to transformDataToView.
ViewsResponse ==
  /\ pc = "getViews"
  /\ \E rowIndex \in 0..(skeletons - 1), outcome \in Outcomes,
        raw \in RawBatches :
       /\ viewsRequest(rowIndex) \in inflight
       /\ batchRow # rowIndex
       /\ outcome # "ok" => raw = <<>>
       /\ batchRow' = rowIndex
       /\ IF outcome = "ok"
          THEN /\ batch' = [i \in DOMAIN raw |-> startItem(raw[i])]
               /\ event' = "response"
               /\ UNCHANGED <<pc, collections, collectionIds, inflight,
                              issued>>
               /\ stillLoading
          ELSE LET result == getViews(outcome, rowIndex, <<>>)
               IN /\ batch' = <<>>
                  /\ event' = settledAs(result)
                  /\ afterGetViews(rowIndex, result)
  /\ UNCHANGED <<skeletons, selectedRowIndex, selectedColumnIndex,
                 isHorizontal, connected, step,
                 modal, image>>

\* An image probe settles (onload or onerror) and the transformDataToView
\* awaiting it resumes.
ProbeSettle ==
  /\ pc = "getViews"
  /\ viewsRequest(batchRow) \in inflight
  /\ \E i \in DOMAIN batch, ok \in BOOLEAN, present \in BOOLEAN :
       /\ batch[i].out = "pending"
       /\ batch' = [batch EXCEPT ![i] = probeSettled(batch[i], ok, present)]
  /\ event' = "probe"
  /\ stillLoading
  /\ UNCHANGED <<pc, skeletons, selectedRowIndex, selectedColumnIndex,
                 collections, isHorizontal, connected, inflight, issued,
                 batchRow, collectionIds, step,
                 modal, image>>

\* Promise.all settles: getViews returns and the loop of fetchData goes
\* on.
GetViewsResolve ==
  /\ pc = "getViews"
  /\ viewsRequest(batchRow) \in inflight
  /\ promiseAllSettled(batch)
  /\ LET result == getViews("ok", batchRow, batch)
     IN /\ event' = settledAs(result)
        /\ afterGetViews(batchRow, result)
  /\ batch' = <<>>
  /\ UNCHANGED <<skeletons, selectedRowIndex, selectedColumnIndex,
                 isHorizontal, connected, batchRow, step,
                 modal, image>>

(***************************************************************************)
(* Events after load                                                       *)
(***************************************************************************)

\* One registered listener runs: handleKeyDown(event).  While the loading
\* image is all the shadow root holds, querySelector("hulu-modal") is null
\* and modal.getAttribute raises a TypeError.
keydownListener(s, key) ==
  IF loading THEN [s EXCEPT !.raised = TRUE] ELSE handleKeyDown(s, key)

\* document dispatches a keydown event to the n listeners this element
\* has registered, one after the other; an exception in one of them does
\* not keep the next from running.
RECURSIVE dispatchEvent(_, _, _)
dispatchEvent(s, key, n) ==
  IF n = 0 THEN s
  ELSE LET before == dispatchEvent(s, key, n - 1)
           after == keydownListener([before EXCEPT !.raised = FALSE], key)
       IN [after EXCEPT !.raised = before.raised \/ after.raised]

\* A keydown event on document reaches handleKeyDown.
keydown(key) ==
  /\ listeners > 0
  /\ LET s == dispatchEvent(current, key, listeners)
     IN /\ selectedRowIndex' = s.row
        /\ selectedColumnIndex' = s.col
        /\ selectedTile' = s.tile
        /\ grid' = s.grid
        /\ modalIsOpen' = s.isOpen
        /\ modalShow' = s.show
        /\ modalItem' = s.item
        /\ opacity' = s.opacity
        /\ raised' = s.raised
  /\ event' = key
  /\ reRendered' = FALSE
  /\ UNCHANGED <<pc, skeletons, loading, collections, isHorizontal,
                 collectionsElement, toggleIsHorizontal, sliderOn, listeners,
                 connected, inflight, issued, batch, batchRow,
                 collectionIds,
                 modal, image>>

\* The user presses any key.
KeyDown(key) == keydown(key) /\ UNCHANGED step

\* Mutant of ToggleClick: the re-render resets the cursor to the origin.
ToggleClick_resetsCursor ==
  /\ pc = "done"
  /\ connected
  /\ toggleIsHorizontal' = ~toggleIsHorizontal
  /\ sliderOn' = toggleIsHorizontal'
  /\ isHorizontal' = ~isHorizontal
  /\ selectedRowIndex' = 0
  /\ selectedColumnIndex' = 0
  /\ grid' = renderCollections(collections, 0, 0)
  /\ collectionsElement' = queryCollectionContainers(grid')
  /\ event' = "click"
  /\ raised' = FALSE
  /\ reRendered' = TRUE
  /\ UNCHANGED <<pc, skeletons, loading, selectedTile, collections,
                 modalIsOpen, modalShow, modalItem, opacity, listeners,
                 connected, inflight, issued, batch, batchRow,
                 collectionIds, step,
                 modal, image>>

\* Mutant of ToggleClick: the toggleHandler also closes the overlay.
ToggleClick_closesOverlay ==
  /\ pc = "done"
  /\ connected
  /\ toggleIsHorizontal' = ~toggleIsHorizontal
  /\ sliderOn' = toggleIsHorizontal'
  /\ isHorizontal' = ~isHorizontal
  /\ grid' = renderCollections(collections, selectedRowIndex,
                               selectedColumnIndex)
  /\ collectionsElement' = queryCollectionContainers(grid')
  /\ modalIsOpen' = "false"
  /\ modalShow' = FALSE
  /\ opacity' = "1"
  /\ event' = "click"
  /\ raised' = FALSE
  /\ reRendered' = TRUE
  /\ UNCHANGED <<pc, skeletons, loading, selectedRowIndex,
                 selectedColumnIndex, selectedTile, collections, modalItem,
                 listeners, connected, inflight, issued, batch, batchRow,
                 collectionIds, step, modal, image>>

\* Mutant of ToggleClick: the click listener of the toggle calls the
\* toggleHandler without toggleLayout().
ToggleClick_noToggleLayout ==
  /\ pc = "done"
  /\ connected
  /\ isHorizontal' = ~isHorizontal
  /\ grid' = renderCollections(collections, selectedRowIndex,
                               selectedColumnIndex)
  /\ collectionsElement' = queryCollectionContainers(grid')
  /\ event' = "click"
  /\ raised' = FALSE
  /\ reRendered' = TRUE
  /\ UNCHANGED <<pc, skeletons, loading, selectedRowIndex,
                 selectedColumnIndex, selectedTile, collections, modalIsOpen,
                 modalShow, modalItem, opacity, toggleIsHorizontal, sliderOn,
                 listeners, connected, inflight, issued, batch, batchRow,
                 collectionIds, step, modal, image>>

\* A click on the layout toggle (in the document, so the element is
\* connected): HuluLayoutToggle.toggleLayout(), then the toggleHandler
\* installed by HuluCollections.addEventListeners.
ToggleClick ==
  /\ pc = "done"
  /\ connected
  /\ toggleIsHorizontal' = ~toggleIsHorizontal
  /\ sliderOn' = toggleIsHorizontal'
  /\ isHorizontal' = ~isHorizontal
  /\ grid' = renderCollections(collections, selectedRowIndex,
                               selectedColumnIndex)
  /\ collectionsElement' = queryCollectionContainers(grid')
  /\ event' = "click"
  /\ raised' = FALSE
  /\ reRendered' = TRUE
  /\ UNCHANGED <<pc, skeletons, loading, selectedRowIndex,
                 selectedColumnIndex, selectedTile, collections, modalIsOpen,
                 modalShow, modalItem, opacity, listeners, connected,
                 inflight, issued, batch, batchRow, collectionIds, step,
                 modal, image>>

\* The function addEventListeners registers for keydown, and the one
\* disconnectedCallback asks to remove: bind() returns a new function.
registeredListener == "handleKeyDown.bind(this)"
removedListener == "handleKeyDown"

\* document.removeEventListener("keydown", listener) with n listeners of
\* this element registered: a listener is removed only when it is the
\* function that was registered.
removeEventListener(n, listener) ==
  IF (listener = registeredListener) /\ (n > 0) THEN n - 1 ELSE n

\* The element is removed from the document: disconnectedCallback().  An
\* outstanding load is not cancelled.
Disconnect ==
  /\ connected
  /\ connected' = FALSE
  /\ listeners' = removeEventListener(listeners, removedListener)
  /\ event' = "disconnect"
  /\ raised' = FALSE
  /\ reRendered' = FALSE
  /\ UNCHANGED <<pc, skeletons, loading, selectedRowIndex,
                 selectedColumnIndex, selectedTile, collections,
                 isHorizontal, collectionsElement, grid, modalIsOpen,
                 modalShow, modalItem, opacity, toggleIsHorizontal,
                 sliderOn, inflight, issued, batch, batchRow,
                 collectionIds, step,
                 modal, image>>

\* The element, removed after a load, is inserted into the document
\* again: connectedCallback() runs as the first time, on the state the
\* element has kept.  renderLoading() replaces the content of the shadow
\* root; state.collections, the cursor and the listeners stay.
Reconnect ==
  /\ pc = "done"
  /\ ~connected
  /\ listeners < MaxConnects
  /\ pc' = "getCollections"
  /\ connected' = TRUE
  /\ inflight' = {hubRequest}
  /\ issued' = <<>>
  /\ loading' = TRUE
  /\ grid' = <<>>
  /\ modalIsOpen' = Null
  /\ modalShow' = FALSE
  /\ modalItem' = Null
  /\ opacity' = ""
  /\ toggleIsHorizontal' = FALSE
  /\ sliderOn' = FALSE
  /\ event' = "reconnect"
  /\ raised' = FALSE
  /\ reRendered' = FALSE
  /\ UNCHANGED <<skeletons, selectedRowIndex, selectedColumnIndex,
                 selectedTile, collections, isHorizontal, collectionsElement,
                 listeners, batch, batchRow, collectionIds, step,
                 modal, image>>

Init ==
  /\ pc = "constructed"
  /\ skeletons = 0
  /\ loading = FALSE
  /\ selectedRowIndex = constructorState.selectedRowIndex
  /\ selectedColumnIndex = constructorState.selectedColumnIndex
  /\ selectedTile = constructorState.selectedTile
  /\ collections = constructorState.collections
  /\ isHorizontal = constructorState.isHorizontal
  /\ collectionsElement = Undefined
  /\ grid = <<>>
  /\ modalIsOpen = Null
  /\ modalShow = FALSE
  /\ modalItem = Null
  /\ opacity = ""
  /\ toggleIsHorizontal = FALSE
  /\ sliderOn = FALSE
  /\ listeners = 0
  /\ event = "none"
  /\ raised = FALSE
  /\ reRendered = FALSE
  /\ connected = FALSE
  /\ inflight = {}
  /\ issued = <<>>
  /\ batch = <<>>
  /\ batchRow = -1
  /\ collectionIds = <<>>
  /\ step = 0
  /\ modal = constructedModal
  /\ image = constructedImage

Next ==
  \/ Connect
  \/ GetCollectionsSettle
  \/ GetViewsSettle
  \/ \E key \in Keys : KeyDown(key)
  \/ ToggleClick

Spec == Init /\ [][Next]_vars

\* A hulu-image alone, with its attributes set from outside.
SpecImage == Init /\ [][NextImage]_vars

\* A hulu-modal alone, opened and closed as handleKeyDown does.
SpecModal == Init /\ [][NextModal]_vars

\* The load in detail, with key events at any time.
NextLoad ==
  \/ Connect
  \/ GetCollectionsSettle
  \/ ViewsResponse
  \/ ProbeSettle
  \/ GetViewsResolve
  \/ \E key \in Keys : KeyDown(key)

SpecLoad == Init /\ [][NextLoad]_vars

\* The load in detail alone, every outstanding request and image probe
\* settling eventually and every settled promise resuming its awaiter.
NextLoading ==
  \/ Connect
  \/ GetCollectionsSettle
  \/ ViewsResponse
  \/ ProbeSettle
  \/ GetViewsResolve

SpecLoadLive ==
  /\ Init
  /\ [][NextLoading]_vars
  /\ WF_vars(GetCollectionsSettle)
  /\ WF_vars(ViewsResponse)
  /\ WF_vars(ProbeSettle)
  /\ WF_vars(GetViewsResolve)

\* The life of the element: load, events, and removal from the document
\* at any time after it was connected.
NextLife ==
  \/ Next
  \/ Disconnect

SpecLife == Init /\ [][NextLife]_vars

\* The element loaded, removed and inserted again, with arrow keys at any
\* time.
NextReconnect ==
  \/ Connect
  \/ GetCollectionsSettle
  \/ GetViewsSettle
  \/ \E key \in ArrowKeys : KeyDown(key)
  \/ Disconnect
  \/ Reconnect

SpecReconnect == Init /\ [][NextReconnect]_vars

\* The key sequence of the scenario: Down, Right, Up, Enter, Right,
\* Escape.
script ==
  <<"ArrowDown", "ArrowRight", "ArrowUp", "Enter", "ArrowRight", "Escape">>

\* The user presses the next key of the script.
ScenarioKey ==
  /\ pc = "done"
  /\ step < Len(script)
  /\ keydown(script[step + 1])
  /\ step' = step + 1

\* A load followed by the keys of the script, in order.
NextScenario ==
  \/ Connect
  \/ GetCollectionsSettle
  \/ GetViewsSettle
  \/ ScenarioKey

SpecScenario == Init /\ [][NextScenario]_vars

(***************************************************************************)
(* Properties                                                              *)
(***************************************************************************)

\* connectedCallback has run to its end (or to its uncaught exception).
loaded == pc = "done"

\* Every collection of the catalog has at least one view.
noEmptyRow == \A r \in DOMAIN collections : collections[r] # <<>>

\* The cursor addresses a view of the catalog.
cursorOnView ==
  /\ (selectedRowIndex + 1) \in DOMAIN collections
  /\ (selectedColumnIndex + 1) \in DOMAIN collections[selectedRowIndex + 1]

\* The positions <<rowIndex, columnIndex>> of the tiles whose is-selected
\* attribute is "true".
selectedTiles ==
  {p \in (0..(Len(grid) - 1)) \X (0..(MaxViews + 1)) :
     /\ (p[2] + 1) \in DOMAIN grid[p[1] + 1]
     /\ grid[p[1] + 1][p[2] + 1] = "true"}

\* C1: after load, for every catalog and every sequence of arrow keys,
\* 0 <= selectedColumnIndex <= (items in row selectedRowIndex) - 1.
\* Stated for catalogs without an empty row, where that range is never
\* empty, so that only a key event can take the column out of it.
C1_ColumnInRange ==
  (loaded /\ collections # <<>> /\ noEmptyRow) =>
     /\ (selectedRowIndex + 1) \in DOMAIN collections
     /\ selectedColumnIndex \in
          0..(Len(collections[selectedRowIndex + 1]) - 1)

\* C2: after load with at least one collection, for every sequence of key
\* events and layout toggles, 0 <= selectedRowIndex <= collectionCount - 1.
C2_RowInRange ==
  (loaded /\ collections # <<>>) =>
     selectedRowIndex \in 0..(Len(collections) - 1)

\* C2 witness: ArrowDown has taken the cursor to the last of several rows,
\* after a layout toggle.
C2_Witness ==
  /\ loaded
  /\ Len(collections) >= 2
  /\ selectedRowIndex = Len(collections) - 1
  /\ event = "ArrowDown"
  /\ ~isHorizontal

\* C3: while the modal is open, handling an arrow key leaves
\* selectedRowIndex, selectedColumnIndex, selectedTile and every tile's
\* is-selected attribute unchanged.
C3_Gating ==
  [][(modalIsOpen = "true" /\ event' \in ArrowKeys) =>
       UNCHANGED <<selectedRowIndex, selectedColumnIndex, selectedTile,
                   grid>>]_vars

\* C3 witness: an arrow key was handled with the modal open, the cursor
\* being away from the origin.
C3_Witness ==
  /\ modalIsOpen = "true"
  /\ event \in ArrowKeys
  /\ selectedColumnIndex > 0

\* C4: when Enter is handled with the modal closed, the modal becomes open
\* and is bound to collections[selectedRowIndex].views[selectedColumnIndex].
\* Stated as what holds right after an Enter, for catalogs with a
\* collection and without an empty row, where selectedTile is a View.
C4_EnterBindsCursorItem ==
  (loaded /\ collections # <<>> /\ noEmptyRow /\ event = "Enter") =>
     /\ modalIsOpen = "true"
     /\ cursorOnView
     /\ modalItem =
          collections[selectedRowIndex + 1][selectedColumnIndex + 1]

\* C5: once the grid is rendered, exactly one tile carries
\* is-selected="true", the one at (selectedRowIndex, selectedColumnIndex).
\* Stated for catalogs with a collection and without an empty row.
C5_ExactlyOneSelected ==
  (loaded /\ collections # <<>> /\ noEmptyRow) =>
     selectedTiles = {<<selectedRowIndex, selectedColumnIndex>>}

\* C6: a layout toggle flips isHorizontal and leaves selectedRowIndex,
\* selectedColumnIndex and selectedTile as they were.
C6_ToggleKeepsCursor ==
  [][(event' = "click") =>
       /\ isHorizontal' = ~isHorizontal
       /\ UNCHANGED <<selectedRowIndex, selectedColumnIndex,
                      selectedTile>>]_vars

\* C6 witness: a second toggle was handled with the cursor on the second
\* view of the second row.
C6_Witness ==
  /\ event = "click"
  /\ isHorizontal
  /\ selectedRowIndex = 1
  /\ selectedColumnIndex = 1
  /\ selectedTile = <<1, 1>>

\* The cursor is at the boundary the arrow key points to.
atBoundary(key) ==
  \/ key = "ArrowLeft" /\ selectedColumnIndex = 0
  \/ key = "ArrowUp" /\ selectedRowIndex = 0
  \/ /\ key = "ArrowRight"
     /\ (selectedRowIndex + 1) \in DOMAIN collections
     /\ collections[selectedRowIndex + 1] # <<>>
     /\ selectedColumnIndex = Len(collections[selectedRowIndex + 1]) - 1
  \/ /\ key = "ArrowDown"
     /\ collections # <<>>
     /\ selectedRowIndex = Len(collections) - 1

\* C7: ArrowLeft at column 0, ArrowUp at row 0, ArrowRight at the last
\* column of the current row and ArrowDown at the last row leave the whole
\* state unchanged, re-render nothing and raise nothing.
C7_BoundaryNoOp ==
  [][\A key \in ArrowKeys :
       (loaded /\ atBoundary(key) /\ event' = key) =>
          /\ UNCHANGED <<selectedRowIndex, selectedColumnIndex, selectedTile,
                         grid, collections, isHorizontal, collectionsElement,
                         modalIsOpen, modalShow, modalItem, opacity>>
          /\ ~reRendered'
          /\ ~raised']_vars

\* C7 witness: ArrowDown was handled, modal closed, in a catalog of one
\* collection (so at the last row), the cursor being on a later column.
C7_Witness ==
  /\ loaded
  /\ Len(collections) = 1
  /\ event = "ArrowDown"
  /\ modalIsOpen # "true"
  /\ selectedColumnIndex >= 1

\* C8: once the modal is open, no key event other than Escape closes it
\* or binds it to another item.
C8_OpenUntilEscape ==
  [][(modalIsOpen = "true" /\ event' \in (Keys \ {"Escape"})) =>
       /\ modalIsOpen' = "true"
       /\ modalShow' = modalShow
       /\ modalItem' = modalItem]_vars

\* C8 witness: a key other than Escape was handled with the modal open
\* and bound to a view that is not the first one.
C8_Witness ==
  /\ modalIsOpen = "true"
  /\ modalShow
  /\ event = "ArrowLeft"
  /\ modalItem = <<0, 1>>

\* C9: Escape is handled in every state; afterwards the modal is closed
\* and the grid opacity is "1", and the cursor, selectedTile, the layout
\* mode and the item bound to the modal are unchanged.
C9_EscapeFrame ==
  [][(loaded /\ event' = "Escape") =>
       /\ modalIsOpen' = "false"
       /\ ~modalShow'
       /\ opacity' = "1"
       /\ ~raised'
       /\ UNCHANGED <<selectedRowIndex, selectedColumnIndex, selectedTile,
                      grid, collections, isHorizontal, collectionsElement,
                      modalItem, toggleIsHorizontal, sliderOn>>]_vars

\* C9 witness: Escape has closed a modal that stays bound to its item,
\* in the vertical layout with the cursor away from the origin.
C9_Witness ==
  /\ event = "Escape"
  /\ modalIsOpen = "false"
  /\ modalItem = <<0, 1>>
  /\ selectedColumnIndex = 1
  /\ ~isHorizontal

\* C10: when the catalog client yields no collection, connectedCallback
\* and every later key handler complete without raising.
C10_NoCollectionsNoRaise ==
  (loaded /\ collections = <<>>) => ~raised

(***************************************************************************)
(* Properties of the load (SpecLoad)                                       *)
(***************************************************************************)

Last(seq) == seq[Len(seq)]
Range(seq) == {seq[k] : k \in DOMAIN seq}

\* C11: until the whole catalog has loaded, the keydown listener is not
\* registered, the grid is not rendered and the cursor and the modal are
\* as constructed; once the listener is registered or the grid rendered,
\* no request and no image probe is outstanding and every collection has
\* been fetched.
C11_NoInputBeforeLoaded ==
  /\ ~loaded =>
       /\ listeners = 0
       /\ grid = <<>>
       /\ ~reRendered
       /\ selectedRowIndex = 0
       /\ selectedColumnIndex = 0
       /\ modalIsOpen = Null
       /\ modalItem = Null
  /\ (listeners > 0 \/ grid # <<>>) =>
       /\ loaded
       /\ inflight = {}
       /\ batch = <<>>
       /\ Len(collections) = skeletons

\* C11 witness: after a load whose last collection went through its image
\* probes, a key has moved the cursor.
C11_Witness ==
  /\ loaded
  /\ skeletons = 2
  /\ batchRow = 1
  /\ Len(collections[2]) = 2
  /\ event = "ArrowDown"
  /\ selectedRowIndex = 1

\* C12: at most one request is in flight; no getViews is called while the
\* collections request is outstanding; getViews is called in collection
\* order, and while the one of collection i is in flight (its fetch or
\* its image probes) exactly the collections before i have been pushed.
C12_SequentialLoad ==
  /\ Cardinality(inflight) <= 1
  /\ hubRequest \in inflight => issued = <<>>
  /\ issued = [k \in 1..Len(issued) |-> k - 1]
  /\ Len(issued) <= skeletons
  /\ \A q \in inflight :
       Len(q) = 2 =>
         /\ Len(collections) = q[2]
         /\ Last(issued) = q[2]
         /\ batch # <<>> => batchRow = q[2]

\* C12 witness: the items of the second collection are being normalized,
\* after the first collection was pushed.
C12_Witness ==
  /\ viewsRequest(1) \in inflight
  /\ issued = <<0, 1>>
  /\ Len(collections) = 1
  /\ batchRow = 1
  /\ \E i \in DOMAIN batch : batch[i].out = "pending"

\* The step in which the Promise.all of a non-empty batch settles.
resolving == batch # <<>> /\ batch' = <<>>

\* C13: when the batch of a collection has settled, the views pushed for
\* it are exactly the items whose normalization read no missing part and
\* whose horizontal and vertical probe both gave a url, in the order of
\* the raw items.
C13_Filtering ==
  [][resolving =>
       LET kept == {i \in DOMAIN batch :
                      /\ batch[i].missing = "none"
                      /\ batch[i].h = "url"
                      /\ batch[i].v = "url"}
           views == Last(collections')
       IN /\ Len(collections') = Len(collections) + 1
          /\ Range(views) = {<<batchRow, i - 1>> : i \in kept}
          /\ \A j, k \in DOMAIN views :
               j < k => views[j][2] < views[k][2]]_vars

\* C13 witness: of a batch of two items, the first was dropped and the
\* second is the only view of its collection.
C13_Witness ==
  /\ event = "views"
  /\ batchRow = 0
  /\ collections = << <<(<<0, 1>>)>> >>

\* C14: getCollections and getViews never reject; a failed collections
\* request gives no skeleton, and a failed items request gives the empty
\* list, which is pushed as the views of its collection.
C14_FailSoft ==
  /\ [](event \notin {"collectionsRejected", "viewsRejected"})
  /\ [][/\ event' = "collectionsFailed" =>
             (skeletons' = 0 /\ collections' = <<>>)
        /\ event' = "viewsFailed" =>
             collections' = Append(collections, <<>>)]_vars

\* C14 witness: the items request of the first of two collections has
\* failed; the collection is pushed empty and the load goes on.
C14_Witness ==
  /\ event = "viewsFailed"
  /\ collections = << <<>> >>
  /\ viewsRequest(1) \in inflight

\* C15: after load, state.collections holds one entry per skeleton, in the
\* order of the skeletons; an items request that fails adds its collection
\* with an empty list, and the next collection, if any, is fetched.
C15_CollectionsPreserved ==
  /\ [](loaded =>
          /\ Len(collections) = skeletons
          /\ collectionIds = [k \in 1..skeletons |-> k - 1])
  /\ [][event' = "viewsFailed" =>
          /\ Len(collections') = Len(collections) + 1
          /\ Last(collections') = <<>>
          /\ collectionIds' = Append(collectionIds, Len(collections))
          /\ Len(collections') < skeletons =>
               viewsRequest(Len(collections')) \in inflight']_vars

\* C15 witness: loaded with two collections, the first one empty.
C15_Witness ==
  /\ loaded
  /\ skeletons = 2
  /\ collections[1] = <<>>
  /\ collections[2] # <<>>
  /\ collectionIds = <<0, 1>>

\* normalization of the settled item raised: a part of the record it
\* read was missing.
threw(item) == item.missing # "none"

\* C19: when the normalization of some item of a batch raised, getViews
\* still resolves normally: the raising items are absent from the views
\* pushed, and every complete item whose two images loaded is among them.
C19_NormalizationIsolated ==
  [][(resolving /\ \E j \in DOMAIN batch : threw(batch[j])) =>
       /\ event' = "views"
       /\ \A i \in DOMAIN batch :
            /\ threw(batch[i]) =>
                 <<batchRow, i - 1>> \notin Range(Last(collections'))
            /\ (~threw(batch[i]) /\ batch[i].h = "url"
                  /\ batch[i].v = "url") =>
                 <<batchRow, i - 1>> \in Range(Last(collections'))]_vars

\* C19 witness: a settled batch whose first item lacks the vertical
\* artwork and whose second item became a view.
C19_Witness ==
  /\ viewsRequest(batchRow) \in inflight
  /\ Len(batch) = 2
  /\ batch[1].missing = "vertical_tile"
  /\ batch[1].out = "undefined"
  /\ batch[2].out = "view"

(***************************************************************************)
(* Properties of teardown (SpecLife)                                       *)
(***************************************************************************)

\* C16: once the element has been disconnected during the load, the
\* resumed connectedCallback neither renders the grid nor registers a
\* keydown listener.
C16_TeardownDuringLoad ==
  [][(~connected /\ pc \in {"getCollections", "getViews"}) =>
       /\ listeners' = listeners
       /\ grid' = grid
       /\ ~reRendered']_vars

\* C17: disconnectedCallback on a loaded component leaves no keydown
\* listener of the element on document.
C17_ListenerRemoved ==
  [][(loaded /\ event' = "disconnect") => listeners' = 0]_vars

(***************************************************************************)
(* The scripted scenario (SpecScenario)                                    *)
(***************************************************************************)

\* The catalog of the scenario: two collections, of 3 and of 1 views.
scenarioCatalog ==
  /\ loaded
  /\ Len(collections) = 2
  /\ Len(collections[1]) = 3
  /\ Len(collections[2]) = 1

\* The cursor before the first key and after each key of the script.
expectedCursor ==
  << <<0, 0>>, <<1, 0>>, <<1, 0>>, <<0, 0>>, <<0, 0>>, <<0, 0>>, <<0, 0>> >>

\* C18: on the catalog of sizes 3 and 1, after each key of Down, Right,
\* Up, Enter, Right, Escape the cursor is (1,0), (1,0), (0,0), (0,0),
\* (0,0), (0,0); the modal is not open before Enter, open and bound to
\* view 0 of collection 0 after Enter and after the Right that follows,
\* and closed after Escape.
C18_Scenario ==
  scenarioCatalog =>
    /\ <<selectedRowIndex, selectedColumnIndex>> = expectedCursor[step + 1]
    /\ ~raised
    /\ step < 4 => modalIsOpen # "true"
    /\ step \in {4, 5} =>
         /\ modalIsOpen = "true"
         /\ modalShow
         /\ modalItem = <<0, 0>>
    /\ step = 6 => (modalIsOpen = "false" /\ ~modalShow)

\* C18 witness: the whole script has been applied to the catalog of the
\* scenario.
C18_Witness ==
  /\ scenarioCatalog
  /\ step = Len(script)
  /\ event = "Escape"

(***************************************************************************)
(* Rendering on key events (Spec)                                          *)
(***************************************************************************)

\* The positions of the tiles whose is-selected attribute a step changes.
changedTiles ==
  {p \in UNION {{<<r, c>> : c \in DOMAIN grid[r]} : r \in DOMAIN grid} :
     grid'[p[1]][p[2]] # grid[p[1]][p[2]]}

\* C20: an arrow key that changes the cursor changes is-selected on
\* exactly two tiles, the one at the old cursor to "false" and the one at
\* the new cursor to "true", without a re-render; renderCollections runs
\* only as the load completes and on a click of the layout toggle.
\* Stated for catalogs without an empty row, where the cursor starts on a
\* tile.
C20_PatchesTwoTiles ==
  [][/\ (loaded /\ noEmptyRow /\ event' \in ArrowKeys
           /\ <<selectedRowIndex', selectedColumnIndex'>> #
                <<selectedRowIndex, selectedColumnIndex>>) =>
          /\ ~reRendered'
          /\ Len(grid') = Len(grid)
          /\ changedTiles =
               {<<selectedRowIndex + 1, selectedColumnIndex + 1>>,
                <<selectedRowIndex' + 1, selectedColumnIndex' + 1>>}
          /\ grid[selectedRowIndex + 1][selectedColumnIndex + 1] = "true"
          /\ grid'[selectedRowIndex' + 1][selectedColumnIndex' + 1] = "true"
     /\ reRendered' => (event' = "click" \/ (~loaded /\ loaded'))]_vars

(***************************************************************************)
(* Properties of the key handler, continued (Spec)                         *)
(***************************************************************************)

\* The index handleKeyDown computes for an arrow key equals the current
\* one (of the coordinate that key moves).
sameIndex(key) ==
  \/ key = "ArrowUp" /\ arrowUpIndex(current) = selectedRowIndex
  \/ key = "ArrowDown" /\ arrowDownIndex(current) = selectedRowIndex
  \/ key = "ArrowLeft" /\ arrowLeftIndex(current) = selectedColumnIndex
  \/ key = "ArrowRight" /\ arrowRightIndex(current) = selectedColumnIndex

\* C21: when the index computed for an arrow key equals the current index,
\* the handler writes no tile attribute, does not reassign selectedTile,
\* does not re-render and leaves the cursor and the modal alone.
C21_SameIndexNoOp ==
  [][\A key \in ArrowKeys :
       (loaded /\ collections # <<>> /\ event' = key /\ sameIndex(key)) =>
          /\ grid' = grid
          /\ selectedTile' = selectedTile
          /\ selectedRowIndex' = selectedRowIndex
          /\ selectedColumnIndex' = selectedColumnIndex
          /\ collectionsElement' = collectionsElement
          /\ opacity' = opacity
          /\ modalIsOpen' = modalIsOpen
          /\ ~reRendered'
          /\ ~raised']_vars

\* C21 witness: ArrowRight was handled, modal closed, in a catalog of one
\* collection of one view, where the index it computes is always 0.
C21_Witness ==
  /\ loaded
  /\ collections = << <<(<<0, 0>>)>> >>
  /\ event = "ArrowRight"
  /\ modalIsOpen # "true"
  /\ grid = << <<"true">> >>

\* C22: ArrowUp and ArrowDown leave selectedColumnIndex as it was, also
\* when the new row is shorter; ArrowLeft and ArrowRight leave
\* selectedRowIndex as it was.
C22_OneCoordinate ==
  [][/\ (loaded /\ event' \in {"ArrowUp", "ArrowDown"}) =>
          selectedColumnIndex' = selectedColumnIndex
     /\ (loaded /\ event' \in {"ArrowLeft", "ArrowRight"}) =>
          selectedRowIndex' = selectedRowIndex]_vars

\* C22 witness: ArrowDown has moved the cursor to a row of one view while
\* the column stayed 2.
C22_Witness ==
  /\ loaded
  /\ event = "ArrowDown"
  /\ selectedRowIndex = 1
  /\ selectedColumnIndex = 2
  /\ Len(collections[2]) = 1

\* C27: after load, the grid carries opacity 0.5 exactly when the modal is
\* open, the modal carries the class show exactly when its is-open is
\* "true", and a grid that is not dimmed has the opacity it was rendered
\* with or "1".
C27_DimmedIffOpen ==
  loaded =>
    /\ (opacity = "0.5") <=> (modalIsOpen = "true")
    /\ modalShow <=> (modalIsOpen = "true")
    /\ (modalIsOpen # "true") => (opacity \in {"", "1"})

\* C27 witness: the layout was toggled while the modal was open and the
\* grid dimmed, after a cursor move.
C27_Witness ==
  /\ loaded
  /\ event = "click"
  /\ modalIsOpen = "true"
  /\ opacity = "0.5"
  /\ selectedRowIndex = 1

\* C29: ArrowRight never decreases and ArrowLeft never increases
\* selectedColumnIndex; ArrowDown never decreases and ArrowUp never
\* increases selectedRowIndex.  Stated for catalogs without an empty row.
C29_DirectionMonotone ==
  [][(loaded /\ collections # <<>> /\ noEmptyRow) =>
       /\ event' = "ArrowRight" =>
            selectedColumnIndex' >= selectedColumnIndex
       /\ event' = "ArrowLeft" =>
            selectedColumnIndex' <= selectedColumnIndex
       /\ event' = "ArrowDown" => selectedRowIndex' >= selectedRowIndex
       /\ event' = "ArrowUp" => selectedRowIndex' <= selectedRowIndex]_vars

\* C30: with at least one collection loaded, no key handler ends with an
\* uncaught exception.
C30_KeysNeverRaise ==
  (loaded /\ collections # <<>> /\ event \in Keys) => ~raised

(***************************************************************************)
(* Properties of the load, continued (SpecLoad, SpecLoadLive)              *)
(***************************************************************************)

\* C24, as claimed: every probe of a batch is started without waiting for
\* another probe of the batch: while the horizontal probe of an item is
\* outstanding, its vertical probe has been started too.
C24_AllProbesParallel ==
  \A i \in DOMAIN batch : batch[i].h = "probing" => batch[i].v # "none"

\* C24, amended: the items of a batch are normalized concurrently.  The
\* horizontal probe of every item is started as the response arrives; the
\* vertical probe of an item is started when its own horizontal probe has
\* settled, so an unsettled item always has a probe outstanding and waits
\* for no other item; the batch settles only when every item has settled.
C24_ItemsConcurrent ==
  /\ [](\A i \in DOMAIN batch :
          /\ batch[i].out = "pending" =>
               (batch[i].h = "probing") # (batch[i].v = "probing")
          /\ batch[i].v # "none" => batch[i].h \in {"url", "null"})
  /\ [][event' = "response" =>
          \A i \in DOMAIN batch' :
            batch'[i].out = "pending" => batch'[i].h = "probing"]_vars
  /\ [][resolving => \A i \in DOMAIN batch : batch[i].out # "pending"]_vars

\* C24 witness: probes of two items are outstanding at once, the vertical
\* one of the first item and the horizontal one of the second.
C24_Witness ==
  /\ Len(batch) = 2
  /\ batch[1].v = "probing"
  /\ batch[2].h = "probing"

\* The load has finished: the loading image is removed, the grid rendered
\* and the keydown listener registered.
loadFinished == loaded /\ ~loading /\ listeners > 0 /\ reRendered

\* C25: when every request and every image probe settles eventually, a
\* load that has started finishes; and while the load waits, a request is
\* outstanding.
C25_LoadFinishes ==
  /\ (pc = "getCollections") ~> loadFinished
  /\ [](pc \in {"getCollections", "getViews"} => inflight # {})

\* C25 witness: the load of two collections has finished after the image
\* probes of the second one.
C25_Witness ==
  /\ loadFinished
  /\ skeletons = 2
  /\ batchRow = 1
  /\ Len(collections[2]) = 2
  /\ event = "views"


\* C28: for a connected hulu-image, after any sequence of src and
\* is-selected attribute changes, the wrapper rendered in the shadow root
\* carries the selected class exactly when the is-selected attribute is
\* "true".  (Stated as the claim has it; the code violates it when a
\* change of is-selected follows a change of src.)
C28_SelectedClassFollowsAttribute ==
  image.connected =>
    (image.shown.selected <=> (image.attrs["is-selected"] = "true"))

\* The bound item of an open modal, and what the dialog shows of it.
boundItem == modal.item[1]
modalIsBound == getAttribute(modal, "is-open") = "true" /\ modal.item # <<>>
textsAreOf(item) ==
  /\ modal.text.title = item.title
  /\ modal.text.description = item.description
  /\ modal.text.rating = item.rating
  /\ modal.text.genre = join(item.genre, " * ")
  /\ modal.text.date = item.date[1]
  /\ modal.text.actionText = item.actionText
imageIsOf(item) == modal.image.shown.src = item.horizontalImage
logoIsOf(item) ==
  modal.image.shown.logo =
    IF Null = item.branding THEN "" ELSE brandingLogo(item.branding)

\* C26: after Enter on item X, whatever item was bound by an earlier
\* open, every field the modal displays (title, description, rating, genre
\* list, year, action text, horizontal image, branding logo) is X's value.
\* (Stated as the claim has it; the code leaves the logo or a text of the
\* previous item when the attributes it observes do not change.)
C26_AllFieldsBound ==
  modalIsBound =>
    /\ textsAreOf(boundItem)
    /\ imageIsOf(boundItem)
    /\ logoIsOf(boundItem)


\* C23: the catalog list is append-only during load and read-only
\* afterwards: state.collections changes only by the append of one
\* collection, and once a load has ended (a listener is registered) no
\* event, a connect of the element included, changes it.  (Stated as the
\* claim has it; the code appends the catalog again when the element is
\* connected again.)
C23_AppendOnlyThenReadOnly ==
  [][/\ collections' # collections =>
          /\ Len(collections') = Len(collections) + 1
          /\ SubSeq(collections', 1, Len(collections)) = collections
     /\ listeners > 0 => collections' = collections]_vars

\* C31: each keydown event is handled at most once by the component: for
\* any sequence of connect, disconnect and re-connect of the element, at
\* most one keydown listener of it is active, so the effect of one arrow
\* key press is that of one run of handleKeyDown at most.  (Stated as the
\* claim has it; the code registers one more listener at every connect
\* and removes none.)
C31_KeyHandledOnce ==
  [][(event' \in ArrowKeys) =>
       LET once == keydownListener(current, event')
       IN \/ UNCHANGED <<selectedRowIndex, selectedColumnIndex,
                         selectedTile, grid>>
          \/ /\ selectedRowIndex' = once.row
             /\ selectedColumnIndex' = once.col
             /\ selectedTile' = once.tile
             /\ grid' = once.grid]_vars

\* The overlay is open.
overlayOpen == modalIsOpen = "true"

\* C32: the layout toggle is not gated by the overlay: while the overlay
\* is open a click on the toggle is handled, it flips isHorizontal and
\* re-renders the grid, and it leaves the overlay open, its bound item, the
\* dimming of the grid and the cursor unchanged.
C32_ToggleNotGated ==
  /\ [](loaded /\ connected /\ overlayOpen => ENABLED ToggleClick)
  /\ [][(event' = "click") /\ overlayOpen =>
          /\ isHorizontal' = ~isHorizontal
          /\ reRendered'
          /\ grid' = renderCollections(collections, selectedRowIndex,
                                       selectedColumnIndex)
          /\ UNCHANGED <<modalIsOpen, modalShow, modalItem, opacity,
                         selectedRowIndex, selectedColumnIndex>>]_vars

\* C32 witness: a click was handled with the overlay open on the second
\* view of the first row, the grid now vertical and still dimmed.
C32_Witness ==
  /\ event = "click"
  /\ overlayOpen
  /\ modalShow
  /\ modalItem = <<0, 1>>
  /\ opacity = "0.5"
  /\ ~isHorizontal
  /\ reRendered
  /\ selectedColumnIndex = 1

\* C33: within one connection of the element, after any number of clicks
\* on the layout toggle, the toggle's own flag is the opposite of the
\* grid's isHorizontal, and the slider is on exactly when the grid layout
\* is vertical.
C33_FlagsOpposite ==
  loaded =>
    /\ toggleIsHorizontal = ~isHorizontal
    /\ sliderOn <=> ~isHorizontal

\* C33 witness: a second click in a row was handled: the grid is horizontal
\* again and the slider off.
C33_Witness ==
  /\ event = "click"
  /\ loaded
  /\ isHorizontal
  /\ ~toggleIsHorizontal
  /\ ~sliderOn

====
